---- MODULE Spec2Model ----
(***************************************************************************)
(* A model of src/app.py: the ColorReducer object (quantization result,    *)
(* palette, distribution, centroid overrides, PDF export), the             *)
(* ColorSubstitutor tolerance recolouring, and the Streamlit script main.  *)
(*                                                                         *)
(* Conventions                                                             *)
(*   - a Python list / numpy array is a function over 0..n-1, so that a    *)
(*     cluster id is the index, as in the code; None is the empty array;   *)
(*   - an RGB or LAB colour is a triple <<c1, c2, c3>> of 0..255;          *)
(*   - a hex colour is the sequence of its seven characters;               *)
(*   - a percentage (counts / total) * 100 is kept exact as the fraction   *)
(*     [num |-> 100 * count, den |-> total];                               *)
(*   - a method call yields [exc, val, self]: the exception raised (or     *)
(*     "none"), the value returned and the object after the call.          *)
(***************************************************************************)
EXTENDS Integers, Sequences, FiniteSets, TLC

VARIABLES
    image,          \* the uploaded image: RGB pixels, row-major
    km,             \* what KMeans fits on this image (fixed random_state)
    cr,             \* the ColorReducer object
    ret,            \* the most recent call: [op, args, exc, val]
    hist,           \* history: what was returned or applied earlier
    subst,          \* a ColorSubstitutor session: tolerance, images, history
    lay,            \* generate_pdf's legend loop, one iteration per step
    ui              \* the Streamlit session: session_state and what is shown

vars == <<image, km, cr, ret, hist, subst, lay, ui>>

None == <<>>

----------------------------------------------------------------------------
(* Bounds of the model *)

\* pixels in an image handed to ColorReducer
NPix == 2
\* set_color_substitution calls accepted before a clear_color_substitutions
MaxOverrides == 2
\* pixels in an image handed to ColorSubstitutor.apply on its own
SubPix == 2
\* ColorSubstitutor.apply calls chained on one image
MaxSubs == 2

\* values of the "Select number of colors" input the model draws (2..32 in
\* the UI; KMeans needs at least as many pixels as clusters)
KSet == {2}

----------------------------------------------------------------------------
(* Colours *)

Red     == <<255, 0, 0>>
Gray    == <<128, 128, 128>>
Gray2   == <<131, 131, 131>>
Green   == <<0, 255, 0>>
Silver  == <<130, 130, 130>>

\* colours of the pixels of an uploaded image
ImageColors == {Red, Gray, Gray2}
\* colours the user picks as replacement
NewColors == {Green, Silver}

\* cv2.cvtColor(.., COLOR_RGB2LAB) on uint8: L*255/100, a+128, b+128 of the
\* CIE L*a*b* (D65) coordinates, rounded.  Tabulated on ImageColors.
RGB2LAB(rgb) ==
    CASE rgb = Red   -> <<136, 208, 195>>
      [] rgb = Gray  -> <<137, 128, 128>>
      [] rgb = Gray2 -> <<140, 128, 128>>

\* cv2.cvtColor(.., COLOR_LAB2RGB) on uint8, tabulated on the LAB values the
\* model's centroids take.  The round trip is lossy (red comes back as
\* (255, 2, 1) by the CIE formulas).
LAB2RGB(lab) ==
    CASE lab = <<136, 208, 195>> -> <<255, 2, 1>>
      [] lab = <<137, 128, 128>> -> <<128, 128, 128>>
      [] lab = <<140, 128, 128>> -> <<131, 131, 131>>

Clip(v) == IF v < 0 THEN 0 ELSE IF v > 255 THEN 255 ELSE v

\* np.clip(x, 0, 255).astype(np.uint8) on one LAB triple
ClipU8(c) == <<Clip(c[1]), Clip(c[2]), Clip(c[3])>>

HexDigits == <<"0", "1", "2", "3", "4", "5", "6", "7",
               "8", "9", "a", "b", "c", "d", "e", "f">>

\* '%02x' % v
Hex2(v) == <<HexDigits[(v \div 16) + 1], HexDigits[(v % 16) + 1]>>

\* '#%02x%02x%02x' % tuple(color)
HexOf(color) == <<"#">> \o Hex2(color[1]) \o Hex2(color[2]) \o Hex2(color[3])

DigitValue(ch) == CHOOSE d \in 0..15 : HexDigits[d + 1] = ch

\* int(s, 16) of a two-character string
Int16(s) == 16 * DigitValue(s[1]) + DigitValue(s[2])

\* hex_to_rgb: lstrip('#'), then the three two-character fields
hex_to_rgb(hex_color) ==
    LET h == IF Len(hex_color) > 0 /\ hex_color[1] = "#"
             THEN Tail(hex_color) ELSE hex_color
    IN  <<Int16(SubSeq(h, 1, 2)), Int16(SubSeq(h, 3, 4)), Int16(SubSeq(h, 5, 6))>>

----------------------------------------------------------------------------
(* Arrays and dicts *)

Size(a) == Cardinality(DOMAIN a)

\* numpy's a[i] for an integer i: negative indices count from the end
InRange(i, n) == i >= -n /\ i < n
Wrap(i, n) == IF i < 0 THEN i + n ELSE i

\* a Python dict is the sequence of its <<key, value>> items in insertion
\* order; d[k] = v keeps the position of a key already present
DictSet(d, k, v) ==
    IF \E i \in DOMAIN d : d[i][1] = k
    THEN [i \in DOMAIN d |-> IF d[i][1] = k THEN <<k, v>> ELSE d[i]]
    ELSE Append(d, <<k, v>>)

Keys(d) == {d[i][1] : i \in DOMAIN d}

----------------------------------------------------------------------------
(* ColorSubstitutor *)

Tolerances == {0, 20, 500}

\* (r - old[0])**2 + (g - old[1])**2 + (b - old[2])**2
Dist2(p, q) ==
    (p[1] - q[1]) * (p[1] - q[1]) + (p[2] - q[2]) * (p[2] - q[2])
        + (p[3] - q[3]) * (p[3] - q[3])

\* distance <= self.tolerance, with distance = Dist2 ** 0.5: for an integer
\* tolerance >= 0 the correctly rounded square root of an integer is <= it
\* exactly when the integer is <= its square
Within(tolerance, p, q) == Dist2(p, q) <= tolerance * tolerance

Opaque == 255

\* img.convert("RGBA"): every pixel gets alpha 255
ToRGBA(image_array) ==
    [i \in DOMAIN image_array |-> image_array[i] \o <<Opaque>>]

\* img.convert("RGB"): the alpha channel is dropped
ToRGB(data) == [i \in DOMAIN data |-> SubSeq(data[i], 1, 3)]

\* the loop body with the comparison made strict
SubstPixelStrict(tolerance, pixel, old_color, new_color) ==
    IF Dist2(pixel, old_color) < tolerance * tolerance
    THEN new_color \o <<pixel[4]>>
    ELSE pixel

\* the body of the loop over the pixels
SubstPixel(tolerance, pixel, old_color, new_color) ==
    IF Within(tolerance, pixel, old_color)
    THEN new_color \o <<pixel[4]>>
    ELSE pixel

\* apply with the two branches of the loop body exchanged
apply_inverted(tolerance, image_array, old_color, new_color) ==
    [i \in DOMAIN image_array |->
        IF Within(tolerance, image_array[i], old_color)
        THEN image_array[i] ELSE new_color]

\* ColorSubstitutor(tolerance).apply(image_array, old_color, new_color)
apply(tolerance, image_array, old_color, new_color) ==
    LET data == ToRGBA(image_array)
        new_data == [i \in DOMAIN data |->
                        SubstPixel(tolerance, data[i], old_color, new_color)]
    IN  ToRGB(new_data)

DefaultTolerance == 20

----------------------------------------------------------------------------
(* KMeans *)

\* cv2.cvtColor(img_array, cv2.COLOR_RGB2LAB).reshape(-1, 3)
PixelsLab(img) == [p \in DOMAIN img |-> RGB2LAB(img[p])]

DistinctLab(img) == {PixelsLab(img)[p] : p \in DOMAIN img}

\* index of the first centre equal to the point (argmin of the distances,
\* the lowest index winning a tie)
Nearest(centers, point) ==
    CHOOSE i \in DOMAIN centers :
        /\ centers[i] = point
        /\ \A j \in DOMAIN centers : centers[j] = point => i <= j

\* KMeans(n_clusters = k, init = 'k-means++', random_state = 42) on an image
\* with at most k distinct colours and at least k pixels: every distinct
\* colour is a centre (inertia 0), a centre left over duplicates one of them
\* and gets no pixel.  Which colour gets which cluster id depends on the
\* seeding: every numbering is a possible fit, and the fit of one image is
\* the same on every call (fixed random_state).
KMeansFits(img, k) ==
    {[n_colors |-> k,
      cluster_centers_ |-> c,
      labels |-> [p \in DOMAIN img |-> Nearest(c, PixelsLab(img)[p])]] :
        c \in {f \in [0..(k - 1) -> DistinctLab(img)] :
                  \A x \in DistinctLab(img) : \E i \in 0..(k - 1) : f[i] = x}}

----------------------------------------------------------------------------
(* ColorReducer *)

Ret(self, val) == [exc |-> "none", val |-> val, self |-> self]
Raise(self, e) == [exc |-> e, val |-> None, self |-> self]

\* ColorReducer.__init__
ColorReducer(img, k) ==
    [image |-> img,
     n_colors |-> k,
     colors |-> None,
     labels |-> None,
     reduced_image |-> None,
     color_mapping |-> <<>>]

\* the loop of apply_color_substitution over color_mapping.items(): the
\* target colour is the LAB centre itself, truncated to integers
RECURSIVE SubstituteItems(_, _, _)
SubstituteItems(self, items, image_array) ==
    IF items = <<>> THEN Ret(self, image_array)
    ELSE LET cluster_idx == Head(items)[1]
             new_color == Head(items)[2]
             n == Size(self.colors)
         IN  IF ~InRange(cluster_idx, n) THEN Raise(self, "IndexError")
             ELSE LET old_color == self.colors[Wrap(cluster_idx, n)]
                  IN  SubstituteItems(self, Tail(items),
                          apply(DefaultTolerance, image_array, old_color, new_color))

apply_color_substitution(self, image_array) ==
    SubstituteItems(self, self.color_mapping, image_array)

\* reduce_colors, given the fit KMeans returns for self.image
reduce_colors(self, fit) ==
    LET fitted == [self EXCEPT !.labels = fit.labels,
                               !.colors = fit.cluster_centers_]
        reduced_pixels_lab ==
            [p \in DOMAIN fitted.labels |-> ClipU8(fitted.colors[fitted.labels[p]])]
        reduced_img_rgb ==
            [p \in DOMAIN reduced_pixels_lab |-> LAB2RGB(reduced_pixels_lab[p])]
        sub == IF fitted.color_mapping # <<>>
               THEN apply_color_substitution(fitted, reduced_img_rgb)
               ELSE Ret(fitted, reduced_img_rgb)
    IN  IF sub.exc # "none" THEN Raise(fitted, sub.exc)
        ELSE Ret([fitted EXCEPT !.reduced_image = sub.val], sub.val)

\* the LAB cluster centres converted to RGB for display
get_palette_rgb(self) ==
    IF self.colors = None THEN None
    ELSE [i \in DOMAIN self.colors |-> LAB2RGB(ClipU8(self.colors[i]))]

\* for cluster_idx, new_color in self.color_mapping.items():
\*     rgb_colors[cluster_idx] = new_color
RECURSIVE OverrideItems(_, _, _)
OverrideItems(self, items, rgb_colors) ==
    IF items = <<>> THEN Ret(self, rgb_colors)
    ELSE LET cluster_idx == Head(items)[1]
             new_color == Head(items)[2]
             n == Size(rgb_colors)
         IN  IF ~InRange(cluster_idx, n) THEN Raise(self, "IndexError")
             ELSE OverrideItems(self, Tail(items),
                      [rgb_colors EXCEPT ![Wrap(cluster_idx, n)] = new_color])

HexColors(rgb_colors) == [i \in DOMAIN rgb_colors |-> HexOf(rgb_colors[i])]

get_color_palette(self) ==
    IF self.colors = None THEN Ret(self, None)
    ELSE LET over == OverrideItems(self, self.color_mapping, get_palette_rgb(self))
         IN  IF over.exc # "none" THEN over
             ELSE Ret(self, HexColors(over.val))

\* np.unique(labels): the labels that occur, ascending
UniqueLabels(labels) ==
    LET S == {labels[p] : p \in DOMAIN labels}
    IN  [j \in 0..(Cardinality(S) - 1) |->
            CHOOSE x \in S : Cardinality({y \in S : y < x}) = j]

\* (counts / total_pixels) * 100, index-aligned with UniqueLabels
Percentages(labels) ==
    LET unique_labels == UniqueLabels(labels)
        total_pixels == Size(labels)
    IN  [j \in DOMAIN unique_labels |->
            [num |-> 100 * Cardinality({p \in DOMAIN labels :
                                           labels[p] = unique_labels[j]}),
             den |-> total_pixels]]

Min(a, b) == IF a <= b THEN a ELSE b

\* list(zip(a, b)): as long as the shorter of the two
Zip(a, b) == [i \in 0..(Min(Size(a), Size(b)) - 1) |-> <<a[i], b[i]>>]

get_color_distribution(self) ==
    IF self.labels = None THEN Ret(self, None)
    ELSE LET percentages == Percentages(self.labels)
             over == OverrideItems(self, self.color_mapping, get_palette_rgb(self))
         IN  IF over.exc # "none" THEN over
             ELSE Ret(self, Zip(HexColors(over.val), percentages))

set_color_substitution(self, cluster_idx, new_color) ==
    Ret([self EXCEPT !.color_mapping = DictSet(@, cluster_idx, new_color)], None)

\* clear_color_substitutions leaving the dict as it is
clear_keeps_mapping(self) == Ret(self, None)

clear_color_substitutions(self) ==
    Ret([self EXCEPT !.color_mapping = <<>>], None)

----------------------------------------------------------------------------
(* generate_pdf *)

\* reportlab.lib.pagesizes, in millimetres (A4 = (210*mm, 297*mm), ...)
PageNames == {"A4", "A3", "A2", "A1", "A0"}
PageMM(page_size) ==
    CASE page_size = "A4" -> <<210, 297>>
      [] page_size = "A3" -> <<297, 420>>
      [] page_size = "A2" -> <<420, 594>>
      [] page_size = "A1" -> <<594, 841>>
      [] page_size = "A0" -> <<841, 1189>>

\* Lengths are exact: a length is an integer number of units, with
\* 254 * img_width * img_height units to the point, which makes every
\* quotient of the layout an integer (1 mm = 72 / 25.4 pt = 720 / 254 pt).
Pt(n, img_width, img_height) == n * 254 * img_width * img_height
Mm(n, img_width, img_height) == n * 720 * img_width * img_height

Margin == 10
GridCols == 8
CellSize == 25
Padding == 40
LegendGap == 30

\* lines 167-177: the image scaled to fit inside the margins, centred
\* horizontally, its top on the top margin
ImageBox(img_width, img_height, page_size) ==
    LET page_width == Mm(PageMM(page_size)[1], img_width, img_height)
        page_height == Mm(PageMM(page_size)[2], img_width, img_height)
        margin == Pt(Margin, img_width, img_height)
        max_width == page_width - 2 * margin
        max_height == page_height - 2 * margin
        \* scale = min(max_width / img_width, max_height / img_height)
        by_width == max_width * img_height <= max_height * img_width
        new_width == IF by_width THEN max_width
                     ELSE (img_width * max_height) \div img_height
        new_height == IF by_width THEN (img_height * max_width) \div img_width
                      ELSE max_height
    IN  [x |-> (page_width - new_width) \div 2,
         y |-> page_height - new_height - margin,
         width |-> new_width,
         height |-> new_height,
         page_width |-> page_width,
         page_height |-> page_height,
         margin |-> margin]

\* the state of the legend loop before its first iteration (line 184)
LegendStart(box) ==
    [y_offset |-> box.y - (LegendGap * (box.margin \div Margin)),
     page |-> 1,
     cells |-> <<>>]

\* one iteration of the legend loop (lines 190-208) for entry i
LegendStep(st, i, entry, box) ==
    LET pt == box.margin \div Margin
        col == i % GridCols
        row == i \div GridCols
        cell_x == box.margin + col * (CellSize + Padding) * pt
        cell_y == st.y_offset - row * (CellSize + Padding) * pt
        new_page == cell_y < box.margin
        y_offset == IF new_page THEN box.page_height - box.margin ELSE st.y_offset
        cell_y2 == IF new_page THEN y_offset - row * (CellSize + Padding) * pt
                   ELSE cell_y
        color == entry[1]
    IN  [y_offset |-> y_offset,
         page |-> IF new_page THEN st.page + 1 ELSE st.page,
         cells |-> Append(st.cells,
                     [i |-> i,
                      page |-> IF new_page THEN st.page + 1 ELSE st.page,
                      first_on_page |-> new_page,
                      x |-> cell_x,
                      y |-> cell_y2,
                      size |-> CellSize * pt,
                      fill |-> <<Int16(SubSeq(color, 2, 3)),
                                 Int16(SubSeq(color, 4, 5)),
                                 Int16(SubSeq(color, 6, 7))>>,
                      label |-> entry])]

\* for i, (color, percentage) in enumerate(updated_distribution)
RECURSIVE LegendLoop(_, _, _, _)
LegendLoop(st, i, distribution, box) ==
    IF i >= Size(distribution) THEN st
    ELSE LegendLoop(LegendStep(st, i, distribution[i], box), i + 1, distribution, box)

\* lines 155-216 of generate_pdf: the document for a reduced image that
\* is img_width pixels wide
render_pdf(self, page_size, img_width) ==
    LET img_height == Size(self.reduced_image) \div img_width
        box == ImageBox(img_width, img_height, page_size)
        dist == get_color_distribution(self)
    IN  IF dist.exc # "none" THEN dist
        ELSE LET legend == LegendLoop(LegendStart(box), 0, dist.val, box)
             IN  Ret(self, [page_size |-> page_size,
                            image |-> self.reduced_image,
                            box |-> box,
                            pages |-> legend.page,
                            cells |-> legend.cells])

\* generate_pdf without its guard: Image.fromarray(np.uint8(None)) raises
generate_pdf_unguarded(self, page_size, img_width) ==
    IF self.reduced_image = None THEN Raise(self, "TypeError")
    ELSE render_pdf(self, page_size, img_width)

\* generate_pdf(page_size)
generate_pdf(self, page_size, img_width) ==
    IF self.reduced_image = None THEN Ret(self, None)
    ELSE render_pdf(self, page_size, img_width)

----------------------------------------------------------------------------
(* Spec: one ColorReducer object and the calls made on it *)

Call(op, args, r) == [op |-> op, args |-> args, exc |-> r.exc, val |-> r.val]

\* images KMeansFits covers for n_colors = k
Images(k) ==
    {img \in [0..(NPix - 1) -> ImageColors] :
        Cardinality(DistinctLab(img)) <= k /\ k <= NPix}

\* page sizes tried on the object (LegendSpec covers all of PageNames)
SpecPages == {"A4"}

\* cluster ids a caller may pass, the two nearest out-of-range ones included
ClusterIds == -1..cr.n_colors

Init ==
    /\ \E k \in KSet : \E img \in Images(k) :
          /\ image = img
          /\ km \in KMeansFits(img, k)
          /\ cr = ColorReducer(img, k)
    /\ ret = [op |-> "__init__", args |-> <<>>, exc |-> "none", val |-> None]
    /\ hist = [palette0 |-> None]
    /\ subst = None
    /\ lay = None
    /\ ui = None

ReduceColors ==
    LET r == reduce_colors(cr, km)
    IN  /\ cr' = r.self
        /\ ret' = Call("reduce_colors", <<>>, r)
        /\ UNCHANGED <<image, km, hist, subst, lay, ui>>

SetColorSubstitution(cluster_idx, new_color) ==
    LET r == set_color_substitution(cr, cluster_idx, new_color)
    IN  /\ \/ cluster_idx \in Keys(cr.color_mapping)
           \/ Len(cr.color_mapping) < MaxOverrides
        /\ cr' = r.self
        /\ ret' = Call("set_color_substitution", <<cluster_idx, new_color>>, r)
        \* the palette as it was returned before the first override
        /\ hist' = IF cr.color_mapping = <<>>
                   THEN [hist EXCEPT !.palette0 = get_color_palette(cr).val]
                   ELSE hist
        /\ UNCHANGED <<image, km, subst, lay, ui>>

ClearColorSubstitutions ==
    LET r == clear_color_substitutions(cr)
    IN  /\ cr' = r.self
        /\ ret' = Call("clear_color_substitutions", <<>>, r)
        /\ UNCHANGED <<image, km, hist, subst, lay, ui>>

GeneratePdf(page_size) ==
    LET r == generate_pdf(cr, page_size, NPix)
    IN  /\ ret' = Call("generate_pdf", <<page_size>>, r)
        /\ UNCHANGED <<image, km, cr, hist, subst, lay, ui>>

Next ==
    \/ ReduceColors
    \/ \E c \in ClusterIds : \E col \in NewColors : SetColorSubstitution(c, col)
    \/ ClearColorSubstitutions
    \/ \E page_size \in SpecPages : GeneratePdf(page_size)

Spec == Init /\ [][Next]_vars

----------------------------------------------------------------------------
(* SubstSpec: one ColorSubstitutor and a chain of apply calls, each taking *)
(* the previous call's output as its input                                 *)

Black == <<0, 0, 0>>
White == <<255, 255, 255>>

\* (12, 16, 0) is at distance exactly 20 of black, (13, 16, 0) just beyond
SubstPixels == {Black, <<12, 16, 0>>, <<13, 16, 0>>, White}
SubstTargets == {Black, <<20, 0, 0>>}
\* (10, 0, 0) is within 20 of both targets, white of neither
SubstReplacements == {White, <<10, 0, 0>>}

SubstInit ==
    /\ \E t \in Tolerances : \E img \in [0..(SubPix - 1) -> SubstPixels] :
          subst = [tolerance |-> t, original |-> img, prev |-> img,
                   image |-> img, history |-> <<>>]
    /\ image = None
    /\ km = None
    /\ cr = None
    /\ ret = None
    /\ hist = None
    /\ lay = None
    /\ ui = None

Substitute(old_color, new_color) ==
    /\ Len(subst.history) < MaxSubs
    /\ subst' = [subst EXCEPT
                    !.prev = subst.image,
                    !.image = apply(subst.tolerance, subst.image, old_color, new_color),
                    !.history = Append(@, [old_color |-> old_color,
                                           new_color |-> new_color])]
    /\ UNCHANGED <<image, km, cr, ret, hist, lay, ui>>

SubstNext ==
    \E old_color \in SubstTargets : \E new_color \in SubstReplacements :
        Substitute(old_color, new_color)

SubstSpec == SubstInit /\ [][SubstNext]_vars

----------------------------------------------------------------------------
(* LegendSpec: generate_pdf's layout, the legend loop one iteration a step *)

\* <<width, height>> of the image: square, portrait inside the page's
\* aspect ratio, taller than the page, wider than the page
LegendImageSizes == {<<1, 1>>, <<3, 4>>, <<1, 2>>, <<4, 1>>}
\* number of (color, percentage) entries of the distribution
LegendSizes == {2, 9, 32}

LegendEntry(n) == <<HexOf(Gray), [num |-> 100, den |-> n]>>

LegendInit ==
    /\ \E size \in LegendImageSizes : \E page_size \in PageNames :
       \E n \in LegendSizes :
          LET box == ImageBox(size[1], size[2], page_size)
          IN  lay = [img_width |-> size[1], img_height |-> size[2],
                     page_size |-> page_size,
                     distribution |-> [j \in 0..(n - 1) |-> LegendEntry(n)],
                     box |-> box, i |-> 0, st |-> LegendStart(box)]
    /\ image = None
    /\ km = None
    /\ cr = None
    /\ ret = None
    /\ hist = None
    /\ subst = None
    /\ ui = None

LegendIterate ==
    /\ lay.i < Size(lay.distribution)
    /\ lay' = [lay EXCEPT
                  !.st = LegendStep(lay.st, lay.i, lay.distribution[lay.i], lay.box),
                  !.i = lay.i + 1]
    /\ UNCHANGED <<image, km, cr, ret, hist, subst, ui>>

LegendNext == LegendIterate

LegendSpec == LegendInit /\ [][LegendNext]_vars

----------------------------------------------------------------------------
(* MainSpec: the Streamlit script.  Every user action reruns main from the *)
(* top: the ColorReducer is a local of the run, only st.session_state and  *)
(* the uploaded file outlive it, and a button is True only in the run its  *)
(* click started.                                                          *)

\* lines 362-371: what every run does before it looks at the buttons
RunStart ==
    LET r == reduce_colors(ColorReducer(image, km.n_colors), km)
    IN  [color_reducer |-> r.self,
         reduced_image |-> r.val,
         colors |-> get_color_palette(r.self).val,
         palette_rgb |-> get_palette_rgb(r.self),
         percentages |-> get_color_distribution(r.self).val]

\* list.index: the first index holding the value, -1 standing for ValueError
IndexOf(a, v) ==
    IF \E i \in DOMAIN a : a[i] = v
    THEN CHOOSE i \in DOMAIN a : a[i] = v /\ \A j \in DOMAIN a : a[j] = v => i <= j
    ELSE -1

Shown(run, modified, updated, download) ==
    [reduced_shown |-> run.reduced_image,
     palette_shown |-> run.percentages,
     modified_shown |-> modified,
     updated_shown |-> updated,
     download |-> download]

MainInit ==
    /\ \E k \in KSet : \E img \in Images(k) :
          /\ image = img
          /\ km \in KMeansFits(img, k)
    /\ cr = None
    /\ ret = [op |-> "upload", args |-> <<>>, exc |-> "none", val |-> None]
    /\ hist = [applied |-> <<>>]
    /\ ui = [session_state |-> [modified_image |-> None],
             shown |-> None]
    /\ subst = None
    /\ lay = None

\* a run with no button clicked (a widget changed, the page was reloaded)
Rerun ==
    LET run == RunStart
    IN  /\ cr' = run.color_reducer
        /\ ret' = [op |-> "rerun", args |-> <<>>, exc |-> "none", val |-> None]
        /\ ui' = [ui EXCEPT !.shown = Shown(run, None, None, None)]
        /\ UNCHANGED <<image, km, hist, subst, lay>>

\* lines 402-429: the run started by a click on Apply
Apply(old_color, new_color) ==
    LET run == RunStart
        old_rgb == hex_to_rgb(old_color)
        new_rgb == hex_to_rgb(new_color)
        modified_image_array ==
            apply(DefaultTolerance, run.reduced_image, old_rgb, new_rgb)
        cluster_idx == IndexOf(run.palette_rgb, old_rgb)
        r == set_color_substitution(run.color_reducer, cluster_idx, new_rgb)
    IN  /\ \E i \in DOMAIN run.colors : run.colors[i] = old_color
        /\ IF cluster_idx = -1
           THEN /\ cr' = run.color_reducer
                /\ ret' = [op |-> "apply", args |-> <<old_color, new_color>>,
                           exc |-> "ValueError", val |-> None]
                /\ ui' = [session_state |-> [modified_image |-> modified_image_array],
                          shown |-> Shown(run, modified_image_array, None, None)]
                /\ hist' = hist
           ELSE /\ cr' = r.self
                /\ ret' = [op |-> "apply", args |-> <<old_color, new_color>>,
                           exc |-> "none", val |-> None]
                /\ ui' = [session_state |-> [modified_image |-> modified_image_array],
                          shown |-> Shown(run, modified_image_array,
                                          get_color_distribution(r.self).val, None)]
                /\ hist' = [hist EXCEPT !.applied = DictSet(@, cluster_idx, new_rgb)]
        /\ UNCHANGED <<image, km, subst, lay>>

\* lines 430-435: the run started by a click on Clear All
ClearAll ==
    LET run == RunStart
        cleared == clear_color_substitutions(run.color_reducer).self
        r == reduce_colors(cleared, km)
    IN  /\ cr' = r.self
        /\ ret' = [op |-> "clear", args |-> <<>>, exc |-> r.exc, val |-> None]
        /\ ui' = [session_state |-> [modified_image |-> None],
                  shown |-> [Shown(run, None, None, None)
                                EXCEPT !.reduced_shown = r.val]]
        /\ hist' = [hist EXCEPT !.applied = <<>>]
        /\ UNCHANGED <<image, km, subst, lay>>

\* lines 439-447: the run started by a click on Generate PDF
GeneratePdfButton(page_size) ==
    LET run == RunStart
        r == generate_pdf(run.color_reducer, page_size, NPix)
    IN  /\ cr' = run.color_reducer
        /\ ret' = [op |-> "generate_pdf", args |-> <<page_size>>,
                   exc |-> r.exc, val |-> None]
        \* if pdf_buffer: st.download_button(...)
        /\ ui' = [ui EXCEPT !.shown = Shown(run, None, None, r.val)]
        /\ UNCHANGED <<image, km, hist, subst, lay>>

MainNext ==
    \/ Rerun
    \* the selectbox offers the palette, the picker any colour
    \/ \E i \in 0..(km.n_colors - 1) : \E new_color \in {HexOf(c) : c \in NewColors} :
          Apply(RunStart.colors[i], new_color)
    \/ ClearAll
    \/ \E page_size \in SpecPages : GeneratePdfButton(page_size)

MainSpec == MainInit /\ [][MainNext]_vars

----------------------------------------------------------------------------
(* Properties of the ColorReducer object (Spec) *)

Quantized == cr.colors # None
ValidIds == 0..(cr.n_colors - 1)
ValidMapping(self) == Keys(self.color_mapping) \subseteq 0..(self.n_colors - 1)

\* the value the dict holds for key k
DictGet(d, k) == d[CHOOSE i \in DOMAIN d : d[i][1] = k][2]

\* only the percentages of a distribution
PercentagesOf(distribution) == [i \in DOMAIN distribution |-> distribution[i][2]]

\* C1: on a quantized ColorReducer, set_color_substitution(c, newColor) with
\* c in [0, K) makes get_color_palette return the hex of newColor at index c
\* and the hex it returned before at every other index, and leaves every
\* percentage of get_color_distribution as it was.
C1_OverrideFrame ==
    [][\A c \in ValidIds : \A col \in NewColors :
          (/\ SetColorSubstitution(c, col)
           /\ Quantized
           /\ get_color_palette(cr).exc = "none")
          => /\ get_color_palette(cr').exc = "none"
             /\ get_color_palette(cr').val =
                   [get_color_palette(cr).val EXCEPT ![c] = HexOf(col)]
             /\ PercentagesOf(get_color_distribution(cr').val) =
                   PercentagesOf(get_color_distribution(cr).val)]_vars

\* C1 restricted to a color_mapping whose stored ids all lie in [0, K): the
\* frame property holds there, so C1_OverrideFrame fails only through ids
\* that set_color_substitution should have rejected (C8).
C1_OverrideFrameValidIds ==
    [][\A c \in ValidIds : \A col \in NewColors :
          (/\ SetColorSubstitution(c, col)
           /\ Quantized
           /\ ValidMapping(cr))
          => /\ get_color_palette(cr').exc = "none"
             /\ get_color_palette(cr').val =
                   [get_color_palette(cr).val EXCEPT ![c] = HexOf(col)]
             /\ PercentagesOf(get_color_distribution(cr').val) =
                   PercentagesOf(get_color_distribution(cr).val)]_vars

\* C2: the image reduce_colors produces has the override colour at every
\* pixel of an overridden cluster and the cluster's own display colour at
\* every pixel of a cluster without an override.
C2_ImageReflectsOverride ==
    (/\ ret.op = "reduce_colors"
     /\ ret.exc = "none"
     /\ ValidMapping(cr))
    => \A p \in DOMAIN cr.reduced_image :
          cr.reduced_image[p] =
              IF cr.labels[p] \in Keys(cr.color_mapping)
              THEN DictGet(cr.color_mapping, cr.labels[p])
              ELSE get_palette_rgb(cr)[cr.labels[p]]

\* number of pixels assigned to cluster i
CountOf(labels, i) == Cardinality({p \in DOMAIN labels : labels[p] = i})

\* C3: get_color_distribution returns exactly K entries, entry i pairing the
\* display colour of cluster i with 100 * (pixels of cluster i) / (pixels),
\* a cluster without pixels getting a 0% entry.
C3_DistributionAligned ==
    (Quantized /\ ValidMapping(cr))
    => LET d == get_color_distribution(cr)
       IN  /\ d.exc = "none"
           /\ DOMAIN d.val = ValidIds
           /\ \A i \in ValidIds :
                 d.val[i] = <<get_color_palette(cr).val[i],
                              [num |-> 100 * CountOf(cr.labels, i),
                               den |-> Size(cr.labels)]>>

\* C4: after any overrides on a quantized ColorReducer,
\* clear_color_substitutions makes get_color_palette return exactly the
\* palette it returned before the first override.
C4_ClearRestoresPalette ==
    (ret.op = "clear_color_substitutions" /\ hist.palette0 # None)
    => /\ get_color_palette(cr).exc = "none"
       /\ get_color_palette(cr).val = hist.palette0

\* an override was made after quantization and then cleared
C4_Witness ==
    /\ ret.op = "clear_color_substitutions"
    /\ hist.palette0 # None
    /\ Size(hist.palette0) = cr.n_colors

\* C8: set_color_substitution with an id outside [0, K) fails with
\* InvalidClusterId and leaves the substitution map unchanged.
C8_InvalidIdRejected ==
    [][\A c \in ClusterIds \ ValidIds : \A col \in NewColors :
          SetColorSubstitution(c, col)
          => /\ ret'.exc = "InvalidClusterId"
             /\ cr'.color_mapping = cr.color_mapping]_vars

----------------------------------------------------------------------------
(* Properties of ColorSubstitutor.apply (SubstSpec) *)

\* the least integer whose square is at least n (n up to 3 * 255 * 255)
CeilSqrt(n) == CHOOSE r \in 0..442 : r * r >= n /\ (r = 0 \/ (r - 1) * (r - 1) < n)

\* the Euclidean RGB distance of p and q is at most the integer t
CloseTo(p, q, t) == CeilSqrt(Dist2(p, q)) <= t

LastSubst == subst.history[Len(subst.history)]

\* C6: apply replaces a pixel with the replacement colour if and only if
\* its Euclidean RGB distance to the target is <= tolerance and returns
\* every other pixel unchanged; with tolerance 0 only pixels equal to the
\* target change, with tolerance 500 every pixel becomes the replacement.
C6_ApplyWithinTolerance ==
    subst.history # <<>>
    => \A p \in DOMAIN subst.prev :
          /\ CloseTo(subst.prev[p], LastSubst.old_color, subst.tolerance)
                => subst.image[p] = LastSubst.new_color
          /\ ~CloseTo(subst.prev[p], LastSubst.old_color, subst.tolerance)
                => subst.image[p] = subst.prev[p]
          /\ (subst.tolerance = 0 /\ subst.image[p] # subst.prev[p])
                => subst.prev[p] = LastSubst.old_color
          /\ subst.tolerance = 500 => subst.image[p] = LastSubst.new_color

\* a pixel at distance exactly 20 of the target was replaced, one just
\* beyond it was kept
C6_Witness ==
    /\ subst.history # <<>>
    /\ subst.tolerance = 20
    /\ \E p, q \in DOMAIN subst.prev :
          /\ Dist2(subst.prev[p], LastSubst.old_color) = 400
          /\ subst.image[p] = LastSubst.new_color
          /\ subst.image[p] # subst.prev[p]
          /\ Dist2(subst.prev[q], LastSubst.old_color) > 400
          /\ subst.image[q] = subst.prev[q]

\* the substitutions whose target the pixel's original colour is within
\* tolerance of
Overlapping(p) ==
    {j \in DOMAIN subst.history :
        CloseTo(subst.original[p], subst.history[j].old_color, subst.tolerance)}

MaxOf(S) == CHOOSE x \in S : \A y \in S : y <= x
MinOf(S) == CHOOSE x \in S : \A y \in S : x <= y

\* C5: a pixel of the original image within tolerance of the targets of
\* more than one of the substitutions applied in sequence ends with the
\* replacement colour of the last-applied of them.
C5_LastAppliedWins ==
    \A p \in DOMAIN subst.original :
        Cardinality(Overlapping(p)) > 1
        => subst.image[p] = subst.history[MaxOf(Overlapping(p))].new_color

\* the colour a pixel of colour c ends with: each substitution in turn
\* tests the colour the pixel has by then
RECURSIVE Walk(_, _, _)
Walk(c, history, tolerance) ==
    IF history = <<>> THEN c
    ELSE Walk(IF CloseTo(c, Head(history).old_color, tolerance)
              THEN Head(history).new_color ELSE c,
              Tail(history), tolerance)

\* C5 as amended: every substitution tests the colour the pixel has when it
\* runs.  A pixel within tolerance of several targets takes the replacement
\* of the first-applied of them, and ends with it unless that colour (or a
\* later replacement of it) is within tolerance of a later-applied target.
C5_CurrentColourDecides ==
    \A p \in DOMAIN subst.original :
        /\ subst.image[p] = Walk(subst.original[p], subst.history, subst.tolerance)
        /\ Overlapping(p) # {}
           => LET first == MinOf(Overlapping(p))
                  later == {j \in DOMAIN subst.history : j > first}
              IN  (\A j \in later :
                      ~CloseTo(subst.history[first].new_color,
                               subst.history[j].old_color, subst.tolerance))
                  => subst.image[p] = subst.history[first].new_color

\* an overlapping pixel that kept the first-applied replacement although a
\* later substitution with another replacement covered its original colour
C5_Witness ==
    \E p \in DOMAIN subst.original :
        /\ Cardinality(Overlapping(p)) > 1
        /\ subst.image[p] = subst.history[MinOf(Overlapping(p))].new_color
        /\ subst.image[p] # subst.history[MaxOf(Overlapping(p))].new_color

----------------------------------------------------------------------------
(* Properties of the legend layout (LegendSpec) *)

\* C10: every legend swatch is drawn between the bottom margin and the top
\* margin of its page, and the first swatch row of a new page starts at the
\* top margin, not at an offset of the old row index.
C10_SwatchesInsideMargins ==
    \A n \in DOMAIN lay.st.cells :
        LET cell == lay.st.cells[n]
            top == lay.box.page_height - lay.box.margin
        IN  /\ lay.box.margin <= cell.y
            /\ cell.y + cell.size <= top
            /\ cell.first_on_page => cell.y + cell.size = top

----------------------------------------------------------------------------
(* Properties of the Streamlit script (MainSpec) *)

\* the colour the user's overrides give cluster i
Overridden(i) ==
    IF i \in Keys(hist.applied) THEN DictGet(hist.applied, i)
    ELSE get_palette_rgb(cr)[i]

\* C7: an override applied by Apply stays in effect until Clear All: the
\* document a later Generate PDF exports holds the substituted image and a
\* legend showing the override colour for the overridden cluster.
C7_OverrideReachesPdf ==
    (ret.op = "generate_pdf" /\ hist.applied # <<>>)
    => LET doc == ui.shown.download
       IN  /\ doc # None
           /\ \A p \in DOMAIN doc.image : doc.image[p] = Overridden(cr.labels[p])
           /\ \A i \in Keys(hist.applied) :
                 \E n \in DOMAIN doc.cells :
                    /\ doc.cells[n].i = i
                    /\ doc.cells[n].label[1] = HexOf(Overridden(i))

\* C11: after Apply with replacement r, a pixel of the displayed modified
\* image has colour r if and only if its cluster is the one whose override
\* color_mapping records, so every pixel's colour is the colour that
\* get_color_distribution reports for its cluster.
C11_ApplyKeepsInSync ==
    (ret.op = "apply" /\ ret.exc = "none")
    => LET shown_image == ui.shown.modified_shown
           reported == ui.shown.updated_shown
           r == hex_to_rgb(ret.args[2])
       IN  /\ Size(cr.color_mapping) = 1
           /\ \A p \in DOMAIN shown_image :
                 /\ shown_image[p] = r <=> cr.labels[p] \in Keys(cr.color_mapping)
                 /\ cr.labels[p] \in DOMAIN reported
                 /\ HexOf(shown_image[p]) = reported[cr.labels[p]][1]

====
